---- MODULE Spec2Model ----
(***************************************************************************)
(* NeuroSync Trainer Lite: the CSV exporter (utils/csv/save_csv.py) and    *)
(* the training-loop helpers (utils/training_helpers.py).                  *)
(*                                                                         *)
(* Four specifications share the variables below:                          *)
(*   SpecCsv       save_generated_data_as_csv, one call per behaviour      *)
(*   SpecTimecode  the timecode of one frame (loop body, lines 45-50)      *)
(*   SpecSetup     prepare_devices_and_models, load_or_initialize_models   *)
(*   SpecTrain     setup followed by multi-GPU training steps              *)
(***************************************************************************)
EXTENDS Integers, Sequences, FiniteSets, TLC

VARIABLES
    \* ---- save_generated_data_as_csv
    generated,                  \* the input matrix: [shape |-> <<rows, cols>>, rows |-> ...]
    include_emotion_dimensions, \* the flag argument
    csv_pc,                     \* position in the function
    selected_columns,           \* header chosen at lines 30-35
    selected_data,              \* matrix chosen at lines 30-35
    timecodes,                  \* list built by the loop at lines 43-51
    data,                       \* np.hstack result, line 58
    csv_file,                   \* what is at output_path
    csv_error,                  \* exception that left the function, if any
    \* ---- one timecode
    tc_frame,                   \* frame index i
    tc_out,                     \* the formatted timecode of frame i ("" before)
    \* ---- prepare_devices_and_models, load_or_initialize_models
    config,                     \* the configuration dict: present keys only
    device_count,               \* torch.cuda.device_count()
    checkpoint,                 \* the checkpoint file: [exists, epoch, batch_step, weights]
    setup_pc,                   \* "start", "prepared", "loaded"
    devices,                    \* the returned device list
    use_multi_gpu,              \* the returned flag
    models,                     \* (model_0, model_1, model_2, model_3)
    start_epoch,                \* returned by load_or_initialize_models
    batch_step,                 \* returned by load_or_initialize_models
    loader_calls,               \* calls of load_checkpoint so far
    init_calls,                 \* calls of model_0.apply(init_weights) so far
    \* ---- _backward_and_step_multi_gpu, _sync_models
    trainable,                  \* the parameters the loss depends on
    train_pc,                   \* position inside the training step
    steps,                      \* completed training steps
    use_amp,                    \* argument of the call
    clip,                       \* argument of the call
    losses,                     \* per replica: the gradient its loss back-propagates
    grad_scale,                 \* grad_scaler's scale factor
    found_inf,                  \* grad_scaler: unscale_ met a non-finite gradient
    loop_i,                     \* index of the running for loop
    trace,                      \* the operations of the running call, in order
    raw,                        \* every replica's gradients when the backward passes ended
    averaged,                   \* model_0's gradients when the averaging ended
    entry_params,               \* every replica's parameters when the call started
    pre_clip_norm,              \* line 215
    returned                    \* the value the last call returned

csv_vars == <<generated, include_emotion_dimensions, csv_pc, selected_columns,
              selected_data, timecodes, data, csv_file, csv_error>>
tc_vars == <<tc_frame, tc_out>>
setup_vars == <<config, device_count, checkpoint, setup_pc, devices, use_multi_gpu,
                models, start_epoch, batch_step, loader_calls, init_calls>>
train_vars == <<trainable, train_pc, steps, use_amp, clip, losses, grad_scale, found_inf,
                loop_i, trace, raw, averaged, entry_params, pre_clip_norm, returned>>
vars == <<csv_vars, tc_vars, setup_vars, train_vars>>

(***************************************************************************)
(* Python floats.  The timecode loop works in IEEE 754 binary64: a float   *)
(* is [m, e] with value m * 2^e and m below 2^MantBits; every operation    *)
(* rounds its exact result to nearest, ties to even.  Mantissas exceed     *)
(* 32-bit integers, so they are little-endian sequences of                 *)
(* LimbBits-bit limbs without leading zero limbs.                          *)
(***************************************************************************)
LimbBits == 14
LimbBase == 2^LimbBits
MantBits == 53

MaxOf(S) == CHOOSE x \in S : \A y \in S : y <= x

RECURSIVE BigOf(_)
BigOf(n) == IF n = 0 THEN <<>> ELSE <<n % LimbBase>> \o BigOf(n \div LimbBase)

RECURSIVE BigToInt(_)
BigToInt(a) == IF a = <<>> THEN 0 ELSE Head(a) + LimbBase * BigToInt(Tail(a))

BigNorm(a) ==
    IF a = <<>> THEN <<>>
    ELSE SubSeq(a, 1, MaxOf({0} \cup {k \in 1..Len(a) : a[k] # 0}))

Limb(a, k) == IF k >= 1 /\ k <= Len(a) THEN a[k] ELSE 0

\* Bring every limb of x into 0..LimbBase-1, moving the excess (or the borrow) up,
\* two limbs at a time.
RECURSIVE BigCarryFrom(_, _, _)
BigCarryFrom(x, k, c) ==
    IF k > Len(x) THEN <<>>
    ELSE IF k = Len(x) THEN <<(x[k] + c) % LimbBase>>
    ELSE <<(x[k] + c) % LimbBase, (x[k + 1] + (x[k] + c) \div LimbBase) % LimbBase>>
         \o BigCarryFrom(x, k + 2, (x[k + 1] + (x[k] + c) \div LimbBase) \div LimbBase)

\* The limbs of a value given by columns x, with one more limb on top: 0 for a
\* value that is not negative, LimbBase - 1 for a negative one.
BigCarrySigned(x) == BigCarryFrom(x \o <<0>>, 1, 0)

BigCarry(x) == BigNorm(BigCarrySigned(x))

BigAdd(a, b) ==
    BigCarry([k \in 1..(IF Len(a) > Len(b) THEN Len(a) ELSE Len(b)) |->
                 Limb(a, k) + Limb(b, k)])

\* a * s for 0 <= s < LimbBase
BigMulSmall(a, s) == BigCarry([k \in 1..Len(a) |-> a[k] * s])

\* a * b for a below 2^(4 * LimbBits), as every mantissa is: column sums, then carries.
BigMul(a, b) ==
    BigCarry([k \in 1..(Len(a) + Len(b)) |->
                 Limb(a, 1) * Limb(b, k) + Limb(a, 2) * Limb(b, k - 1)
                     + Limb(a, 3) * Limb(b, k - 2) + Limb(a, 4) * Limb(b, k - 3)])

BigCmp(a, b) ==
    IF Len(a) # Len(b) THEN (IF Len(a) < Len(b) THEN -1 ELSE 1)
    ELSE LET diff == {k \in 1..Len(a) : a[k] # b[k]}
         IN  IF diff = {} THEN 0
             ELSE IF a[MaxOf(diff)] < b[MaxOf(diff)] THEN -1 ELSE 1

BigShiftLimbs(a, w) == IF a = <<>> THEN <<>> ELSE [j \in 1..w |-> 0] \o a

BigPow2(k) == [j \in 1..(k \div LimbBits) |-> 0] \o <<2^(k % LimbBits)>>

SmallBitLen(n) == MaxOf({0} \cup {j \in 1..LimbBits : n >= 2^(j - 1)})

BitLen(a) == IF a = <<>> THEN 0 ELSE LimbBits * (Len(a) - 1) + SmallBitLen(a[Len(a)])

\* floor(a / 2^s)
BigShiftRight(a, s) ==
    LET w == s \div LimbBits
        t == s % LimbBits
    IN  BigNorm([j \in 1..(Len(a) - w) |->
                    (a[j + w] \div 2^t) + (Limb(a, j + w + 1) % 2^t) * 2^(LimbBits - t)])

\* a mod 2^s
BigLowBits(a, s) ==
    LET w == s \div LimbBits
        t == s % LimbBits
    IN  BigNorm([j \in 1..(IF Len(a) <= w THEN Len(a) ELSE w + 1) |->
                    IF j <= w THEN a[j] ELSE a[j] % 2^t])

\* a * 2^s
BigShiftLeft(a, s) == BigShiftLimbs(BigMulSmall(a, 2^(s % LimbBits)), s \div LimbBits)

\* Long division (Knuth's algorithm D), one limb of the dividend at a time, the
\* divisor's top limb being at least LimbBase / 2: the quotient digit is at most
\* two below the estimate from the leading limbs.  rem - d * b in signed form.
BigMulSub(rem, b, d) ==
    BigCarrySigned([k \in 1..(Len(b) + 1) |-> Limb(rem, k) - Limb(b, k) * d])

BigFits(rem, b, d) == BigMulSub(rem, b, d)[Len(b) + 2] = 0

BigDigit(rem, b) ==
    LET top == Limb(rem, Len(b) + 1) * LimbBase + Limb(rem, Len(b))
        est == IF top \div b[Len(b)] >= LimbBase THEN LimbBase - 1
               ELSE top \div b[Len(b)]
    IN  IF BigFits(rem, b, est) THEN est
        ELSE IF BigFits(rem, b, est - 1) THEN est - 1
        ELSE est - 2

RECURSIVE BigDivLoop(_, _, _, _, _)
BigDivLoop(a, b, k, q, r) ==
    IF k = 0 THEN [q |-> q, r |-> r]
    ELSE LET rem == BigNorm(<<a[k]>> \o r)
             d   == BigDigit(rem, b)
         IN  IF q = <<>> /\ d = 0
             THEN BigDivLoop(a, b, k - 1, <<>>, rem)
             ELSE BigDivLoop(a, b, k - 1, <<d>> \o q, BigNorm(BigMulSub(rem, b, d)))

\* Quotient, and whether the division left no remainder.  Both operands are
\* shifted until the divisor's top limb is at least LimbBase / 2; the leading
\* limbs of the dividend, one fewer than the divisor has, start as the remainder.
BigDivMod(a, b) ==
    LET t  == LimbBits - SmallBitLen(b[Len(b)])
        an == BigShiftLeft(a, t)
        bn == BigShiftLeft(b, t)
        k0 == IF Len(an) < Len(bn) THEN 0 ELSE Len(an) - Len(bn) + 1
        qr == BigDivLoop(an, bn, k0, <<>>, BigNorm(SubSeq(an, k0 + 1, Len(an))))
    IN  [q |-> qr.q, exact |-> qr.r = <<>>]

BigIsOdd(a) == a # <<>> /\ Head(a) % 2 = 1

\* Round the exact value n * 2^e (plus a little, when sticky) to nearest, ties to even.
FloatRound(n, e, sticky) ==
    IF BitLen(n) <= MantBits THEN [m |-> n, e |-> e]
    ELSE LET s    == BitLen(n) - MantBits
             q    == BigShiftRight(n, s)
             c    == BigCmp(BigLowBits(n, s), BigPow2(s - 1))
             up   == c > 0 \/ (c = 0 /\ (sticky \/ BigIsOdd(q)))
             q2   == IF up THEN BigAdd(q, <<1>>) ELSE q
         IN  IF BitLen(q2) > MantBits
             THEN [m |-> BigPow2(MantBits - 1), e |-> e + s + 1]
             ELSE [m |-> q2, e |-> e + s]

FloatOfInt(n) == [m |-> BigOf(n), e |-> 0]

\* x * y
FloatMul(x, y) ==
    IF x.m = <<>> \/ y.m = <<>> THEN [m |-> <<>>, e |-> 0]
    ELSE FloatRound(BigMul(x.m, y.m), x.e + y.e, FALSE)

\* x / y: the quotient is taken with three bits beyond the mantissa and a sticky bit.
FloatDiv(x, y) ==
    IF x.m = <<>> \/ y.m = <<>> THEN [m |-> <<>>, e |-> 0]
    ELSE LET k  == MantBits + 3 + BitLen(y.m) - BitLen(x.m)
             qr == BigDivMod(BigShiftLeft(x.m, k), y.m)
         IN  FloatRound(qr.q, x.e - y.e - k, ~qr.exact)

\* int(x) for x >= 0
FloatInt(x) ==
    IF x.e >= 0 THEN BigToInt(BigShiftLeft(x.m, x.e))
    ELSE BigToInt(BigShiftRight(x.m, -x.e))

\* x - int(x) for x >= 0: exact, the difference is a multiple of x's last place.
FloatFrac(x) ==
    IF x.e >= 0 THEN [m |-> <<>>, e |-> 0]
    ELSE [m |-> BigLowBits(x.m, -x.e), e |-> x.e]

\* divmod(x, w) for x >= 0 and an integer w > 0: float_divmod takes fmod(x, w),
\* which is exact, and (x - mod) / w, an integer below 2^53, exact as well.
FloatDivmod(x, w) ==
    [q |-> FloatInt(x) \div w,
     r |-> IF x.e >= 0 THEN FloatOfInt(FloatInt(x) % w)
           ELSE [m |-> BigAdd(BigShiftLeft(BigOf(FloatInt(x) % w), -x.e),
                              FloatFrac(x).m),
                 e |-> x.e]]

(***************************************************************************)
(* save_generated_data_as_csv                                              *)
(***************************************************************************)
base_columns ==
    << "Timecode", "BlendshapeCount", "EyeBlinkLeft", "EyeLookDownLeft", "EyeLookInLeft",
       "EyeLookOutLeft", "EyeLookUpLeft", "EyeSquintLeft", "EyeWideLeft", "EyeBlinkRight",
       "EyeLookDownRight", "EyeLookInRight", "EyeLookOutRight", "EyeLookUpRight",
       "EyeSquintRight", "EyeWideRight", "JawForward", "JawRight", "JawLeft", "JawOpen",
       "MouthClose", "MouthFunnel", "MouthPucker", "MouthRight", "MouthLeft",
       "MouthSmileLeft", "MouthSmileRight", "MouthFrownLeft", "MouthFrownRight",
       "MouthDimpleLeft", "MouthDimpleRight", "MouthStretchLeft", "MouthStretchRight",
       "MouthRollLower", "MouthRollUpper", "MouthShrugLower", "MouthShrugUpper",
       "MouthPressLeft", "MouthPressRight", "MouthLowerDownLeft", "MouthLowerDownRight",
       "MouthUpperUpLeft", "MouthUpperUpRight", "BrowDownLeft", "BrowDownRight",
       "BrowInnerUp", "BrowOuterUpLeft", "BrowOuterUpRight", "CheekPuff",
       "CheekSquintLeft", "CheekSquintRight", "NoseSneerLeft", "NoseSneerRight",
       "TongueOut", "HeadYaw", "HeadPitch", "HeadRoll", "LeftEyeYaw", "LeftEyePitch",
       "LeftEyeRoll", "RightEyeYaw", "RightEyePitch", "RightEyeRoll" >>

emotion_columns ==
    << "Angry", "Disgusted", "Fearful", "Happy", "Neutral", "Sad", "Surprised" >>

\* Bounds of the inputs.
MaxFrames == 2
NumSeeds == 2
NumCellValues == 3
MaxFrameIndex == 59

\* Column counts tried: both accepted widths, their neighbours, and a narrow matrix.
ColumnCounts == {1, 60, 61, 62, 67, 68, 69}

\* The value in row r, column c of the input matrix drawn with seed s.
CellValue(s, r, c) == (s + 2 * r + c) % NumCellValues

Matrix(nr, nc, s) ==
    [shape |-> <<nr, nc>>,
     rows  |-> [r \in 1..nr |-> [c \in 1..nc |-> CellValue(s, r, c)]]]

NoMatrix == [shape |-> <<0, 0>>, rows |-> <<>>]
NoError == [type |-> "none", line |-> 0]
NoFile == [written |-> FALSE, header |-> <<>>, rows |-> <<>>]

\* str() of a non-negative integer, and the zero padding of {n:0w}.
Digits == << "0", "1", "2", "3", "4", "5", "6", "7", "8", "9" >>

RECURSIVE ToStr(_)
ToStr(n) == IF n < 10 THEN Digits[n + 1] ELSE ToStr(n \div 10) \o Digits[(n % 10) + 1]

RECURSIVE Zeros(_)
Zeros(k) == IF k <= 0 THEN "" ELSE "0" \o Zeros(k - 1)

Pad(n, w) == Zeros(w - Len(ToStr(n))) \o ToStr(n)

FormatTimecode(hours, minutes, seconds, frame_number, milliseconds) ==
    Pad(hours, 2) \o ":" \o Pad(minutes, 2) \o ":" \o Pad(seconds, 2) \o ":"
        \o Pad(frame_number, 2) \o "." \o Pad(milliseconds, 3)

frame_rate == 60
frame_duration == FloatDiv(FloatOfInt(1), FloatOfInt(frame_rate))
\* Line 49: 1000 / frame_rate
frame_milliseconds == FloatDiv(FloatOfInt(1000), FloatOfInt(frame_rate))

\* Lines 45-50: the timecode of frame i, in float arithmetic as written.
Timecode(i) ==
    LET total_seconds == FloatMul(FloatOfInt(i), frame_duration)
        hr            == FloatDivmod(total_seconds, 3600)
        mr            == FloatDivmod(hr.r, 60)
        seconds       == mr.r
        milliseconds  == FloatMul(FloatFrac(seconds), FloatOfInt(1000))
        frame_number  == FloatInt(FloatDiv(milliseconds, frame_milliseconds))
    IN  FormatTimecode(hr.q, mr.q, FloatInt(seconds), frame_number,
                       FloatInt(milliseconds))

\* Line 25: the accepted column counts.
\* A shape check that also lets 62 columns through.
ValidColumnCountsWidened == {68, 61, 62}
ValidColumnCounts == {68, 61}

\* generated[:, -k:], the last k columns instead of the first.
SliceLastColumns(mat, k) ==
    LET w == IF mat.shape[2] < k THEN mat.shape[2] ELSE k
    IN  [shape |-> <<mat.shape[1], w>>,
         rows  |-> [r \in 1..mat.shape[1] |->
                      SubSeq(mat.rows[r], mat.shape[2] - w + 1, mat.shape[2])]]

\* generated[:, :k]
SliceColumns(mat, k) ==
    LET w == IF mat.shape[2] < k THEN mat.shape[2] ELSE k
    IN  [shape |-> <<mat.shape[1], w>>,
         rows  |-> [r \in 1..mat.shape[1] |-> SubSeq(mat.rows[r], 1, w)]]

\* Lines 30-35.
SelectedColumns(flag) == IF flag THEN base_columns \o emotion_columns ELSE base_columns
SelectedData(mat, flag) == IF flag THEN mat ELSE SliceColumns(mat, 61)

\* The width of the input instead of the width of the selection.
BlendshapeCountOfInput(mat, sel) == mat.shape[2]

\* Line 55: the value np.full repeats in every row.
BlendshapeCount(mat, sel) == sel.shape[2]

\* Line 58: np.hstack of a string column with numeric columns yields strings.
HStack(tcs, count, sel) ==
    [shape |-> <<sel.shape[1], 2 + sel.shape[2]>>,
     rows  |-> [r \in 1..sel.shape[1] |->
                  <<tcs[r], ToStr(count)>> \o
                  [c \in 1..sel.shape[2] |-> ToStr(sel.rows[r][c])]]]

InitCsv ==
    /\ \E nr \in 1..MaxFrames, nc \in ColumnCounts, s \in 0..(NumSeeds - 1) :
           generated = Matrix(nr, nc, s)
    /\ include_emotion_dimensions \in BOOLEAN
    /\ csv_pc = "call"
    /\ selected_columns = <<>>
    /\ selected_data = NoMatrix
    /\ timecodes = <<>>
    /\ data = NoMatrix
    /\ csv_file = NoFile
    /\ csv_error = NoError

IdleCsv ==
    /\ generated = NoMatrix
    /\ include_emotion_dimensions = FALSE
    /\ csv_pc = "idle"
    /\ selected_columns = <<>>
    /\ selected_data = NoMatrix
    /\ timecodes = <<>>
    /\ data = NoMatrix
    /\ csv_file = NoFile
    /\ csv_error = NoError

\* Lines 22-26.
CheckShape ==
    /\ csv_pc = "call"
    /\ IF generated.shape[2] \notin ValidColumnCounts
       THEN /\ csv_error' = [type |-> "ValueError", line |-> 26]
            /\ csv_pc' = "raised"
       ELSE /\ csv_pc' = "select"
            /\ UNCHANGED csv_error
    /\ UNCHANGED <<generated, include_emotion_dimensions, selected_columns,
                   selected_data, timecodes, data, csv_file, tc_vars, setup_vars, train_vars>>

\* Lines 30-43.
SelectColumns ==
    /\ csv_pc = "select"
    /\ selected_columns' = SelectedColumns(include_emotion_dimensions)
    /\ selected_data' = SelectedData(generated, include_emotion_dimensions)
    /\ timecodes' = <<>>
    /\ csv_pc' = "timecodes"
    /\ UNCHANGED <<generated, include_emotion_dimensions, data, csv_file, csv_error,
                   tc_vars, setup_vars, train_vars>>

\* Lines 44-51, one iteration.
TimecodeStep ==
    /\ csv_pc = "timecodes"
    /\ Len(timecodes) < generated.shape[1]
    /\ timecodes' = Append(timecodes, Timecode(Len(timecodes)))
    /\ UNCHANGED <<generated, include_emotion_dimensions, csv_pc, selected_columns,
                   selected_data, data, csv_file, csv_error, tc_vars, setup_vars, train_vars>>

\* Lines 54-58.
Stack ==
    /\ csv_pc = "timecodes"
    /\ Len(timecodes) = generated.shape[1]
    /\ data' = HStack(timecodes, BlendshapeCount(generated, selected_data), selected_data)
    /\ csv_pc' = "frame"
    /\ UNCHANGED <<generated, include_emotion_dimensions, selected_columns,
                   selected_data, timecodes, csv_file, csv_error, tc_vars, setup_vars, train_vars>>

\* Lines 61-62: pd.DataFrame rejects a column list whose length differs from the
\* width of the data (ValueError); otherwise to_csv writes header and rows.
WriteCsv ==
    /\ csv_pc = "frame"
    /\ IF data.shape[2] # Len(selected_columns)
       THEN /\ csv_error' = [type |-> "ValueError", line |-> 61]
            /\ csv_pc' = "raised"
            /\ UNCHANGED csv_file
       ELSE /\ csv_file' = [written |-> TRUE, header |-> selected_columns,
                            rows |-> data.rows]
            /\ csv_pc' = "done"
            /\ UNCHANGED csv_error
    /\ UNCHANGED <<generated, include_emotion_dimensions, selected_columns,
                   selected_data, timecodes, data, tc_vars, setup_vars, train_vars>>

NextCsv == CheckShape \/ SelectColumns \/ TimecodeStep \/ Stack \/ WriteCsv

(***************************************************************************)
(* The timecode of a single frame.                                         *)
(***************************************************************************)
\* Frame indices tried: the first second and the frames around each wrap.
FrameSamples ==
    (0..MaxFrameIndex) \cup {60, 61, 3599, 3600, 3601, 7199, 7200, 215999, 216000, 216001}

InitTimecode ==
    /\ tc_frame \in FrameSamples
    /\ tc_out = ""

IdleTimecode ==
    /\ tc_frame = 0
    /\ tc_out = ""

FormatFrame ==
    /\ tc_out = ""
    /\ tc_out' = Timecode(tc_frame)
    /\ UNCHANGED <<tc_frame, csv_vars, setup_vars, train_vars>>

NextTimecode == FormatFrame

(***************************************************************************)
(* prepare_devices_and_models and load_or_initialize_models                *)
(***************************************************************************)
\* model_0 .. model_3, devices padded to this length (lines 28-37).
NumReplicas == 4

\* Bounds of the inputs.
MaxDeviceCount == 5
MaxNumGpus == 5
MaxEpoch == 1
MaxBatchStep == 1
NumParams == 2

\* Parameter vectors a freshly built model or a checkpoint may hold, and the
\* values nn.init.normal_ may draw.
BuildWeights == {[p \in 1..NumParams |-> p], [p \in 1..NumParams |-> 3 * p]}
CheckpointWeights == {[p \in 1..NumParams |-> 10 + p]}
WeightDraws == {5, 7}

\* model_0.apply(init_weights), lines 80-85: parameter 1 is the weight of a
\* Linear layer (drawn anew), parameter 2 its bias (set to 0); a parameter of
\* any other module keeps its value.
InitWeights(params, w) ==
    [p \in 1..NumParams |-> IF p = 1 THEN w ELSE IF p = 2 THEN 0 ELSE params[p]]

\* config.get(key, default)
ConfigGet(cfg, key, default) == IF key \in DOMAIN cfg THEN cfg[key] ELSE default

\* The dicts with any subset of the keys in ks, values from vals[k].
RECURSIVE Configs(_, _)
Configs(ks, vals) ==
    IF ks = {} THEN {<<>>}
    ELSE LET k == CHOOSE x \in ks : TRUE
             rest == Configs(ks \ {k}, vals)
         IN  rest \cup {(k :> v) @@ c : v \in vals[k], c \in rest}

NoModel == [built |-> FALSE, device |-> "None", params |-> <<>>, grads |-> <<>>]

\* build_model(config, device) with the weights its random initialisation drew;
\* no parameter has a gradient yet.
BuildModel(device, w) ==
    [built |-> TRUE, device |-> device, params |-> w,
     grads |-> [p \in 1..NumParams |-> <<>>]]

Cuda(i) == "cuda:" \o ToStr(i)

\* Lines 28-30.
Devices(count) ==
    LET found == [i \in 1..(IF count < 4 THEN count ELSE 4) |-> Cuda(i - 1)]
    IN  found \o [i \in 1..(NumReplicas - Len(found)) |-> "None"]

\* Line 26.
UseMultiGpu(cfg, count) == ConfigGet(cfg, "use_multi_gpu", FALSE) /\ count > 1

\* A build condition that ignores num_gpus.
BuildsReplicaOnEveryDevice(cfg, count, k) ==
    /\ UseMultiGpu(cfg, count)
    /\ Devices(count)[k + 1] # "None"

\* Lines 33-35: is model_k built, k = 1..3.
BuildsReplica(cfg, count, k) ==
    /\ UseMultiGpu(cfg, count)
    /\ ConfigGet(cfg, "num_gpus", 1) >= k + 1
    /\ Devices(count)[k + 1] # "None"

\* Lines 24-37.
PrepareDevicesAndModels ==
    /\ setup_pc = "start"
    /\ devices' = Devices(device_count)
    /\ use_multi_gpu' = UseMultiGpu(config, device_count)
    /\ \E w \in [1..NumReplicas -> BuildWeights] :
           /\ \A k \in 1..(NumReplicas - 1) :
                  ~BuildsReplica(config, device_count, k) => w[k + 1] = w[1]
           /\ models' = [i \in 1..NumReplicas |->
                  IF i = 1
                  THEN BuildModel(IF Devices(device_count)[1] # "None"
                                  THEN Devices(device_count)[1] ELSE "cpu", w[1])
                  ELSE IF BuildsReplica(config, device_count, i - 1)
                       THEN BuildModel(Devices(device_count)[i], w[i])
                       ELSE NoModel]
    /\ setup_pc' = "prepared"
    /\ UNCHANGED <<config, device_count, checkpoint, start_epoch, batch_step,
                   loader_calls, init_calls, csv_vars, tc_vars, train_vars>>

\* os.path.exists(config.get('checkpoint_path', ''))
CheckpointExists(cfg, ckpt) == ConfigGet(cfg, "checkpoint_path", "") # "" /\ ckpt.exists

\* A resume condition that does not look for the file.
ResumesOnMode(cfg, ckpt) == ConfigGet(cfg, "mode", "None") = "resume"

\* Line 57.
Resumes(cfg, ckpt) == ConfigGet(cfg, "mode", "None") = "resume" /\ CheckpointExists(cfg, ckpt)

\* load_checkpoint(checkpoint_path, model_0, optimizer, scheduler, device): the
\* saved epoch and batch step, and model_0 with the saved weights.
LoadCheckpoint(ckpt, model) ==
    [epoch |-> ckpt.epoch, batch_step |-> ckpt.batch_step,
     model |-> [model EXCEPT !.params = ckpt.weights]]

\* model.load_state_dict(model_0.state_dict()) for every secondary model (lines
\* 63-65 and 69-71): parameters are copied, gradients are not part of the state.
SyncSecondaries(ms) ==
    [i \in 1..NumReplicas |->
        IF i > 1 /\ ms[i].built THEN [ms[i] EXCEPT !.params = ms[1].params] ELSE ms[i]]

\* Lines 53-73.
LoadOrInitializeModels ==
    /\ setup_pc = "prepared"
    /\ IF Resumes(config, checkpoint)
       THEN LET got == LoadCheckpoint(checkpoint, models[1])
            IN  /\ start_epoch' = got.epoch + 1
                /\ batch_step' = got.batch_step
                /\ models' = SyncSecondaries([models EXCEPT ![1] = got.model])
                /\ loader_calls' = loader_calls + 1
                /\ UNCHANGED init_calls
       ELSE /\ start_epoch' = 0
            /\ batch_step' = 0
            /\ \E w \in WeightDraws :
                   models' = SyncSecondaries([models EXCEPT ![1].params = InitWeights(@, w)])
            /\ init_calls' = init_calls + 1
            /\ UNCHANGED loader_calls
    /\ setup_pc' = "loaded"
    /\ UNCHANGED <<config, device_count, checkpoint, devices, use_multi_gpu,
                   csv_vars, tc_vars, train_vars>>

NoCheckpoint == [exists |-> FALSE, epoch |-> 0, batch_step |-> 0,
                 weights |-> [p \in 1..NumParams |-> 0]]

Checkpoints ==
    {NoCheckpoint} \cup
    {[exists |-> TRUE, epoch |-> e, batch_step |-> b, weights |-> w] :
        e \in 0..MaxEpoch, b \in 0..MaxBatchStep, w \in CheckpointWeights}

ConfigValues ==
    [num_gpus |-> 1..MaxNumGpus, use_multi_gpu |-> BOOLEAN,
     mode |-> {"train", "resume"}, checkpoint_path |-> {"checkpoint.pth"}]

InitSetup ==
    /\ config \in Configs({"num_gpus", "use_multi_gpu", "mode", "checkpoint_path"},
                          ConfigValues)
    /\ device_count \in 0..MaxDeviceCount
    /\ checkpoint \in Checkpoints
    /\ setup_pc = "start"
    /\ devices = <<>>
    /\ use_multi_gpu = FALSE
    /\ models = <<>>
    /\ start_epoch = 0
    /\ batch_step = 0
    /\ loader_calls = 0
    /\ init_calls = 0

IdleSetup ==
    /\ config = <<>>
    /\ device_count = 0
    /\ checkpoint = NoCheckpoint
    /\ setup_pc = "idle"
    /\ devices = <<>>
    /\ use_multi_gpu = FALSE
    /\ models = <<>>
    /\ start_epoch = 0
    /\ batch_step = 0
    /\ loader_calls = 0
    /\ init_calls = 0

NextSetup == PrepareDevicesAndModels \/ LoadOrInitializeModels

(***************************************************************************)
(* _backward_and_step_multi_gpu, calculate_gradient_norm, _sync_models     *)
(***************************************************************************)
\* Bounds of the training runs.
MaxSteps == 2
NumLossSeeds == 2

\* The clip arguments tried: one below and one above the norms that occur.
ClipValues == {20, 1000}

\* grad_scaler's first scale factor, a power of two.
InitScale == 8

\* A gradient or parameter that is inf or NaN; every finite value is smaller.
NonFinite == 2^30
IsFinite(x) == x # NonFinite
Plus(x, y) == IF IsFinite(x) /\ IsFinite(y) THEN x + y ELSE NonFinite
Minus(x, y) == IF IsFinite(x) /\ IsFinite(y) THEN x - y ELSE NonFinite
Times(x, k) == IF IsFinite(x) THEN x * k ELSE NonFinite
Over(x, k) == IF IsFinite(x) THEN x \div k ELSE NonFinite

\* n = len(models), line 178: the call gets the models that were built.
NumModels == Cardinality({i \in 1..Len(models) : models[i].built})

\* A gradient slot is <<>> (p.grad is None) or <<value>>.  The gradient of replica i's loss: a multiple of 12, so that its mean over up
\* to NumReplicas replicas is exact.
LossGrad(seed, i, p) == 12 * (1 + ((seed + i + p) % 3))

\* The gradients the losses of one call back-propagate; replica bad overflows.
Losses(seed, bad) ==
    [i \in 1..NumModels |->
        [p \in 1..NumParams |->
            IF p \notin trainable THEN <<>>
            ELSE IF i = bad /\ p = 1 THEN <<NonFinite>>
            ELSE <<LossGrad(seed, i, p)>>]]

\* The primary's gradient slots as the caller cleared them before the call:
\* to None, or to zero in place.
ClearedGrads(g, how) ==
    [p \in 1..NumParams |-> IF g[p] = <<>> \/ how = "none" THEN <<>> ELSE <<0>>]

Event(op, arg) == [op |-> op, arg |-> arg]

\* Lines 158-178: the call starts.
StartStep ==
    /\ setup_pc = "loaded"
    /\ train_pc = "boundary"
    /\ steps < MaxSteps
    /\ \E amp \in BOOLEAN, c \in ClipValues, seed \in 0..(NumLossSeeds - 1),
          bad \in {0, 1, NumModels}, how \in {"none", "zero"} :
           /\ use_amp' = amp
           /\ clip' = c
           /\ losses' = Losses(seed, bad)
           /\ models' = [models EXCEPT ![1].grads = ClearedGrads(@, how)]
    /\ entry_params' = [i \in 1..NumModels |-> models[i].params]
    /\ found_inf' = FALSE
    /\ loop_i' = 1
    /\ trace' = <<>>
    /\ raw' = <<>>
    /\ averaged' = <<>>
    /\ pre_clip_norm' = 0
    /\ train_pc' = "backward"
    /\ UNCHANGED <<trainable, steps, grad_scale, returned,
                   config, device_count, checkpoint, setup_pc, devices, use_multi_gpu,
                   start_epoch, batch_step, loader_calls, init_calls, csv_vars, tc_vars>>

\* loss.backward(): the gradient, times factor, is added to the slot.
Accumulate(g, l, factor) ==
    [p \in 1..NumParams |->
        IF l[p] = <<>> THEN g[p]
        ELSE IF g[p] = <<>> THEN <<Times(l[p][1], factor)>>
        ELSE <<Plus(g[p][1], Times(l[p][1], factor))>>]

\* Lines 182-183 and 194-195: one iteration of for loss in losses.
Backward ==
    /\ train_pc = "backward"
    /\ LET after == [models EXCEPT ![loop_i].grads =
                        Accumulate(@, losses[loop_i], IF use_amp THEN grad_scale ELSE 1)]
       IN  /\ models' = after
           /\ IF loop_i = NumModels
              THEN /\ raw' = [i \in 1..NumModels |-> after[i].grads]
                   /\ loop_i' = 1
                   /\ train_pc' = IF use_amp THEN "unscale" ELSE "synchronize"
              ELSE /\ loop_i' = loop_i + 1
                   /\ UNCHANGED <<raw, train_pc>>
    /\ trace' = Append(trace, Event("backward", loop_i))
    /\ UNCHANGED <<trainable, steps, use_amp, clip, losses, grad_scale, found_inf,
                   averaged, entry_params, pre_clip_norm, returned,
                   config, device_count, checkpoint, setup_pc, devices, use_multi_gpu,
                   start_epoch, batch_step, loader_calls, init_calls, csv_vars, tc_vars>>

\* Division of every held gradient by the scale.
Unscaled(g, scale) ==
    [p \in 1..NumParams |-> IF g[p] = <<>> THEN <<>> ELSE <<Over(g[p][1], scale)>>]

\* grad_scaler.unscale_(optimizer), line 185: the optimizer holds model_0's parameters.
UnscaleOptimizer(g, scale) == Unscaled(g, scale)

\* Secondary gradients left scaled.
LeftScaled(g, scale) == g

\* Lines 188-192.
UnscaleSecondary(g, scale) == Unscaled(g, scale)

\* unscale_ records whether a gradient of the optimizer is inf or NaN.
FoundInf(g) == \E p \in 1..NumParams : g[p] # <<>> /\ ~IsFinite(g[p][1])

\* Lines 185-192.
Unscale ==
    /\ train_pc = "unscale"
    /\ found_inf' = FoundInf(models[1].grads)
    /\ models' = [i \in 1..NumReplicas |->
           IF i = 1 THEN [models[i] EXCEPT !.grads = UnscaleOptimizer(@, grad_scale)]
           ELSE IF i <= NumModels
                THEN [models[i] EXCEPT !.grads = UnscaleSecondary(@, grad_scale)]
                ELSE models[i]]
    /\ trace' = Append(trace, Event("unscale", 0))
    /\ loop_i' = 1
    /\ train_pc' = "synchronize"
    /\ UNCHANGED <<trainable, steps, use_amp, clip, losses, grad_scale, raw,
                   averaged, entry_params, pre_clip_norm, returned,
                   config, device_count, checkpoint, setup_pc, devices, use_multi_gpu,
                   start_epoch, batch_step, loader_calls, init_calls, csv_vars, tc_vars>>

\* Lines 198-199: one iteration of for device in devices, one device per model.
Synchronize ==
    /\ train_pc = "synchronize"
    /\ trace' = Append(trace, Event("synchronize", loop_i))
    /\ IF loop_i = NumModels
       THEN loop_i' = 1 /\ train_pc' = "average"
       ELSE loop_i' = loop_i + 1 /\ UNCHANGED train_pc
    /\ UNCHANGED <<trainable, steps, use_amp, clip, losses, grad_scale, found_inf, raw,
                   averaged, entry_params, pre_clip_norm, returned, setup_vars,
                   csv_vars, tc_vars>>

RECURSIVE SumGrads(_, _, _)
SumGrads(ms, p, i) ==
    IF i = 0 THEN 0 ELSE Plus(ms[i].grads[p][1], SumGrads(ms, p, i - 1))

\* torch.mean(torch.stack(grads, dim=0), dim=0), lines 207-210.
MeanGrad(ms, p) == Over(SumGrads(ms, p, NumModels), NumModels)

\* Line 205.
AllHold(ms, p) == \A i \in 1..NumModels : ms[i].grads[p] # <<>>

\* Lines 203-212.
AveragedGrads(ms) ==
    [p \in 1..NumParams |-> IF AllHold(ms, p) THEN <<MeanGrad(ms, p)>> ELSE ms[1].grads[p]]

Average ==
    /\ train_pc = "average"
    /\ models' = [models EXCEPT ![1].grads = AveragedGrads(models)]
    /\ averaged' = AveragedGrads(models)
    /\ trace' = Append(trace, Event("average", 0))
    /\ train_pc' = "norm"
    /\ UNCHANGED <<trainable, steps, use_amp, clip, losses, grad_scale, found_inf, loop_i,
                   raw, entry_params, pre_clip_norm, returned,
                   config, device_count, checkpoint, setup_pc, devices, use_multi_gpu,
                   start_epoch, batch_step, loader_calls, init_calls, csv_vars, tc_vars>>

ISqrt(x) == CHOOSE r \in 0..x : r * r <= x /\ (r + 1) * (r + 1) > x

RECURSIVE SumSquares(_, _)
SumSquares(g, p) ==
    IF p = 0 THEN 0
    ELSE IF g[p] = <<>> THEN SumSquares(g, p - 1)
    ELSE Plus(Times(g[p][1], g[p][1]), SumSquares(g, p - 1))

\* calculate_gradient_norm(model), lines 278-286.
GradientNorm(g) ==
    IF IsFinite(SumSquares(g, NumParams)) THEN ISqrt(SumSquares(g, NumParams)) ELSE NonFinite

\* Line 215.
MeasureNorm ==
    /\ train_pc = "norm"
    /\ pre_clip_norm' = GradientNorm(models[1].grads)
    /\ trace' = Append(trace, Event("norm", 0))
    /\ train_pc' = "clip"
    /\ UNCHANGED <<trainable, steps, use_amp, clip, losses, grad_scale, found_inf, loop_i,
                   raw, averaged, entry_params, returned, setup_vars, csv_vars, tc_vars>>

\* torch.nn.utils.clip_grad_norm_(parameters, max_norm): a norm above max_norm
\* scales every gradient by max_norm / norm.  Under a non-finite norm the
\* coefficient is 0 or NaN: a finite gradient becomes lost, either way.
Clipped(g, max_norm, lost) ==
    LET norm == GradientNorm(g)
    IN  [p \in 1..NumParams |->
            IF g[p] = <<>> THEN <<>>
            ELSE IF ~IsFinite(norm) THEN (IF IsFinite(g[p][1]) THEN <<lost>> ELSE <<NonFinite>>)
            ELSE IF norm > max_norm THEN <<(g[p][1] * max_norm) \div norm>>
            ELSE g[p]]

\* Line 216.
ClipGradNorm ==
    /\ train_pc = "clip"
    /\ \E lost \in {0, NonFinite} :
           models' = [models EXCEPT ![1].grads = Clipped(@, clip, lost)]
    /\ trace' = Append(trace, Event("clip", 0))
    /\ train_pc' = "step"
    /\ UNCHANGED <<trainable, steps, use_amp, clip, losses, grad_scale, found_inf, loop_i,
                   raw, averaged, entry_params, pre_clip_norm, returned,
                   config, device_count, checkpoint, setup_pc, devices, use_multi_gpu,
                   start_epoch, batch_step, loader_calls, init_calls, csv_vars, tc_vars>>

\* optimizer.step(): every parameter of model_0 that holds a gradient moves
\* against it.
Stepped(model) ==
    [model EXCEPT !.params =
        [p \in 1..NumParams |->
            IF model.grads[p] = <<>> THEN model.params[p]
            ELSE Minus(model.params[p], model.grads[p][1])]]

\* A scaler that steps whatever unscale_ found.
AlwaysSteps(amp, inf) == TRUE

\* grad_scaler.step(optimizer), line 219: optimizer.step() is skipped when
\* unscale_ found a non-finite gradient.
ScalerSteps(amp, inf) == ~(amp /\ inf)

\* grad_scaler.update(), line 220: the scale backs off after a skipped step.
UpdatedScale(scale, inf) == IF inf THEN scale \div 2 ELSE scale

\* Lines 218-222.
OptimizerStep ==
    /\ train_pc = "step"
    /\ IF ScalerSteps(use_amp, found_inf)
       THEN /\ models' = [models EXCEPT ![1] = Stepped(@)]
            /\ trace' = Append(trace, Event("optimizer_step", 1))
       ELSE UNCHANGED <<models, trace>>
    /\ grad_scale' = IF use_amp THEN UpdatedScale(grad_scale, found_inf) ELSE grad_scale
    /\ train_pc' = "return"
    /\ UNCHANGED <<trainable, steps, use_amp, clip, losses, found_inf, loop_i,
                   raw, averaged, entry_params, pre_clip_norm, returned,
                   config, device_count, checkpoint, setup_pc, devices, use_multi_gpu,
                   start_epoch, batch_step, loader_calls, init_calls, csv_vars, tc_vars>>

\* Line 224.
Return ==
    /\ train_pc = "return"
    /\ returned' = pre_clip_norm
    /\ train_pc' = "returned"
    /\ UNCHANGED <<trainable, steps, use_amp, clip, losses, grad_scale, found_inf, loop_i,
                   trace, raw, averaged, entry_params, pre_clip_norm, setup_vars,
                   csv_vars, tc_vars>>

\* A synchronisation that copies the parameters and leaves the gradients.
SyncedParamsOnly(ms) ==
    [i \in 1..NumReplicas |->
        IF i > 1 /\ ms[i].built THEN [ms[i] EXCEPT !.params = ms[1].params] ELSE ms[i]]

\* Lines 231-238.
SyncedModels(ms) ==
    [i \in 1..NumReplicas |->
        IF i > 1 /\ ms[i].built
        THEN [ms[i] EXCEPT !.params = ms[1].params,
                           !.grads = [p \in 1..NumParams |->
                                         IF @[p] = <<>> THEN <<>> ELSE <<0>>]]
        ELSE ms[i]]

\* _sync_models(models), called after the step returned.
SyncModels ==
    /\ train_pc = "returned"
    /\ models' = SyncedModels(models)
    /\ steps' = steps + 1
    /\ train_pc' = "boundary"
    /\ UNCHANGED <<trainable, use_amp, clip, losses, grad_scale, found_inf, loop_i,
                   trace, raw, averaged, entry_params, pre_clip_norm, returned,
                   config, device_count, checkpoint, setup_pc, devices, use_multi_gpu,
                   start_epoch, batch_step, loader_calls, init_calls, csv_vars, tc_vars>>

IdleTrain ==
    /\ trainable = {}
    /\ train_pc = "idle"
    /\ steps = 0
    /\ use_amp = FALSE
    /\ clip = 0
    /\ losses = <<>>
    /\ grad_scale = InitScale
    /\ found_inf = FALSE
    /\ loop_i = 1
    /\ trace = <<>>
    /\ raw = <<>>
    /\ averaged = <<>>
    /\ entry_params = <<>>
    /\ pre_clip_norm = 0
    /\ returned = 0

\* Multi-GPU training on NumReplicas devices: num_gpus decides how many
\* replicas take part.
InitTrain ==
    /\ config \in {[use_multi_gpu |-> TRUE, num_gpus |-> g, mode |-> m,
                    checkpoint_path |-> "checkpoint.pth"] :
                      g \in 1..MaxNumGpus, m \in {"train", "resume"}}
    /\ device_count = NumReplicas
    /\ checkpoint \in {c \in Checkpoints : c.exists /\ c.epoch = 0 /\ c.batch_step = 0}
    /\ setup_pc = "start"
    /\ devices = <<>>
    /\ use_multi_gpu = FALSE
    /\ models = <<>>
    /\ start_epoch = 0
    /\ batch_step = 0
    /\ loader_calls = 0
    /\ init_calls = 0
    /\ trainable \in {1..NumParams, 1..(NumParams - 1)}
    /\ train_pc = "boundary"
    /\ steps = 0
    /\ use_amp = FALSE
    /\ clip = 0
    /\ losses = <<>>
    /\ grad_scale = InitScale
    /\ found_inf = FALSE
    /\ loop_i = 1
    /\ trace = <<>>
    /\ raw = <<>>
    /\ averaged = <<>>
    /\ entry_params = <<>>
    /\ pre_clip_norm = 0
    /\ returned = 0

NextTrain ==
    \/ PrepareDevicesAndModels
    \/ LoadOrInitializeModels
    \/ StartStep
    \/ Backward
    \/ Unscale
    \/ Synchronize
    \/ Average
    \/ MeasureNorm
    \/ ClipGradNorm
    \/ OptimizerStep
    \/ Return
    \/ SyncModels

CsvInit == InitCsv /\ IdleTimecode /\ IdleSetup /\ IdleTrain
TimecodeInit == InitTimecode /\ IdleCsv /\ IdleSetup /\ IdleTrain
SetupInit == InitSetup /\ IdleCsv /\ IdleTimecode /\ IdleTrain
TrainInit == InitTrain /\ IdleCsv /\ IdleTimecode

SpecCsv == CsvInit /\ [][NextCsv]_vars
SpecTimecode == TimecodeInit /\ [][NextTimecode]_vars
SpecSetup == SetupInit /\ [][NextSetup]_vars
SpecTrain == TrainInit /\ [][NextTrain]_vars


(***************************************************************************)
(* The properties.                                                         *)
(***************************************************************************)

\* C1: every call with a 61- or 68-column input, with either value of
\* include_emotion_dimensions, succeeds, and the written table has one data
\* row per input row and as many columns in every row as the header of the
\* requested schema.
C1_CallSucceeds ==
    (csv_pc \in {"raised", "done"} /\ generated.shape[2] \in {61, 68}) =>
        /\ csv_pc = "done"
        /\ csv_file.written
        /\ csv_file.header = <<"Timecode", "BlendshapeCount">>
               \o SubSeq(base_columns, 3, Len(base_columns))
               \o (IF include_emotion_dimensions THEN emotion_columns ELSE <<>>)
        /\ Len(csv_file.rows) = generated.shape[1]
        /\ \A r \in 1..Len(csv_file.rows) : Len(csv_file.rows[r]) = Len(csv_file.header)

\* C2: the timecode of frame i is HH:MM:SS:FF.mmm with HH = i div 216000,
\* MM = (i div 3600) mod 60, SS = (i div 60) mod 60, FF = i mod 60 and
\* mmm = floor((i mod 60) * 1000 / 60).
C2_TimecodeOfIndex ==
    tc_out # "" =>
        tc_out = FormatTimecode(tc_frame \div 216000, (tc_frame \div 3600) % 60,
                                (tc_frame \div 60) % 60, tc_frame % 60,
                                ((tc_frame % 60) * 1000) \div 60)

\* C3: an input whose column count is neither 61 nor 68 raises ValueError at
\* the shape check, before any column is selected, any timecode generated and
\* anything written: no file exists afterwards.
C3_ShapeError ==
    (csv_pc # "call" /\ generated.shape[2] \notin {61, 68}) =>
        /\ csv_pc = "raised"
        /\ csv_error = [type |-> "ValueError", line |-> 26]
        /\ ~csv_file.written
        /\ selected_columns = <<>>
        /\ selected_data = NoMatrix
        /\ timecodes = <<>>
        /\ data = NoMatrix

C3_Witness ==
    /\ csv_pc = "raised"
    /\ generated.shape = <<2, 62>>
    /\ csv_error.type = "ValueError"

\* C4: a 68-column input with include_emotion_dimensions = false is written
\* with the 61-channel schema: no emotion name in the header, and in every row
\* the channel values are the first 61 input values, in order.
C4_EmotionsDropped ==
    (csv_file.written /\ generated.shape[2] = 68 /\ ~include_emotion_dimensions) =>
        /\ \A k \in 1..Len(csv_file.header), e \in 1..Len(emotion_columns) :
               csv_file.header[k] # emotion_columns[e]
        /\ Len(csv_file.header) = 2 + 61
        /\ Len(csv_file.rows) = generated.shape[1]
        /\ \A r \in 1..Len(csv_file.rows) :
               SubSeq(csv_file.rows[r], 3, Len(csv_file.rows[r]))
                   = [c \in 1..61 |-> ToStr(generated.rows[r][c])]

C4_Witness ==
    /\ csv_file.written
    /\ generated.shape = <<2, 68>>
    /\ ~include_emotion_dimensions
    /\ Len(csv_file.rows[2]) = 63

\* C5: in every written file BlendshapeCount is the same in every row and is
\* the number of channel values of the row (the columns after Timecode and
\* BlendshapeCount): 61 when the emotion columns are dropped, 68 only when 68
\* channel values are written.
C5_BlendshapeCount ==
    csv_file.written =>
        \A r \in 1..Len(csv_file.rows) :
            /\ csv_file.rows[r][2] = csv_file.rows[1][2]
            /\ csv_file.rows[r][2] = ToStr(Len(csv_file.rows[r]) - 2)
            /\ csv_file.rows[r][2] \in {"61", "68"}
            /\ ~include_emotion_dimensions => csv_file.rows[r][2] = "61"
            /\ csv_file.rows[r][2] = "68" => Len(csv_file.rows[r]) = 2 + 68

C5_Witness ==
    /\ csv_file.written
    /\ generated.shape = <<2, 68>>
    /\ ~include_emotion_dimensions
    /\ csv_file.rows[1][2] = "61"
    /\ csv_file.rows[2][2] = "61"

\* C6: from load_or_initialize_models on, at every step boundary (each step
\* followed by _sync_models) every secondary replica's parameters equal
\* model_0's and every gradient a secondary replica holds is zero; and
\* _sync_models leaves model_0's parameters and gradients as they were.
C6_ReplicaConsistency ==
    /\ []((setup_pc = "loaded" /\ train_pc = "boundary") =>
            \A i \in 2..4 :
                models[i].built =>
                    /\ models[i].params = models[1].params
                    /\ \A p \in 1..NumParams : models[i].grads[p] \in {<<>>, <<0>>})
    /\ [][(train_pc = "returned" /\ train_pc' = "boundary") => models'[1] = models[1]]_vars

C6_Witness ==
    /\ setup_pc = "loaded"
    /\ train_pc = "boundary"
    /\ steps = 2
    /\ models[4].built
    /\ models[4].grads[1] = <<0>>
    /\ models[4].params = models[1].params
    /\ models[1].params # entry_params[1]
    /\ models[1].grads[1] # <<0>>

C8_ResumeOrInitialize ==
    setup_pc = "loaded" =>
        IF /\ "mode" \in DOMAIN config
           /\ config["mode"] = "resume"
           /\ "checkpoint_path" \in DOMAIN config
           /\ checkpoint.exists
        THEN /\ start_epoch = checkpoint.epoch + 1
             /\ batch_step = checkpoint.batch_step
             /\ loader_calls = 1
             /\ init_calls = 0
             /\ models[1].params = checkpoint.weights
        ELSE /\ loader_calls = 0
             /\ start_epoch = 0
             /\ batch_step = 0
             /\ init_calls = 1
             /\ models[1].params[1] \in WeightDraws
             /\ models[1].params[2] = 0

C8_Witness ==
    /\ setup_pc = "loaded"
    /\ "mode" \in DOMAIN config
    /\ config["mode"] = "resume"
    /\ "checkpoint_path" \in DOMAIN config
    /\ ~checkpoint.exists
    /\ loader_calls = 0
    /\ init_calls = 1
    /\ start_epoch = 0

\* C9: prepare_devices_and_models returns 4 devices, cuda:0 .. cuda:k-1 for
\* k = min(device_count, 4) and None after; builds model_0 on cuda:0, or on
\* cpu without accelerator; builds model_k, k in 1..3, iff use_multi_gpu is
\* true, num_gpus >= k + 1 and device_count >= k + 1; so the built models are
\* a prefix, each built secondary is on its non-None device, and there is no
\* secondary without use_multi_gpu.
C9_DevicesAndModels ==
    setup_pc \in {"prepared", "loaded"} =>
        LET num_gpus == IF "num_gpus" \in DOMAIN config THEN config["num_gpus"] ELSE 1
        IN  /\ Len(devices) = 4
            /\ \A i \in 1..4 :
                   devices[i] = IF i <= device_count THEN "cuda:" \o ToStr(i - 1) ELSE "None"
            /\ Len(models) = 4
            /\ models[1].built
            /\ models[1].device = IF device_count >= 1 THEN "cuda:0" ELSE "cpu"
            /\ \A k \in 1..3 :
                   /\ models[k + 1].built <=>
                          (use_multi_gpu /\ num_gpus >= k + 1 /\ device_count >= k + 1)
                   /\ models[k + 1].built => models[k].built
                   /\ models[k + 1].built =>
                          (models[k + 1].device = devices[k + 1] /\ devices[k + 1] # "None")
                   /\ ~use_multi_gpu => ~models[k + 1].built

C9_Witness ==
    /\ setup_pc = "prepared"
    /\ device_count = 5
    /\ use_multi_gpu
    /\ "num_gpus" \in DOMAIN config
    /\ config["num_gpus"] = 3
    /\ models[3].built
    /\ ~models[4].built
    /\ devices[4] = "cuda:3"

\* C10 as stated: every call runs all backward passes (and the unscaling under
\* AMP), then synchronises every device, then averages, then measures the
\* norm, then clips, then takes exactly one optimizer step, on model_0 only;
\* the returned value is the norm of the averaged gradient before clipping and
\* no secondary replica's parameters change during the call.
C10_OneStepEveryCall ==
    train_pc = "returned" =>
        /\ trace = [i \in 1..NumModels |-> Event("backward", i)]
                   \o (IF use_amp THEN <<Event("unscale", 0)>> ELSE <<>>)
                   \o [i \in 1..NumModels |-> Event("synchronize", i)]
                   \o <<Event("average", 0), Event("norm", 0), Event("clip", 0),
                        Event("optimizer_step", 1)>>
        /\ returned = GradientNorm(averaged)
        /\ \A i \in 2..NumModels : models[i].params = entry_params[i]

\* C10, amended: the phases run in that order, and the call takes at most one
\* optimizer step, on model_0 only: exactly one, except under AMP when
\* unscale_ found a non-finite gradient in model_0, where grad_scaler.step
\* takes none and model_0's parameters stay as they were; the returned value
\* is the norm of the averaged gradient before clipping and no secondary
\* replica's parameters change during the call.
C10_PhaseOrder ==
    train_pc = "returned" =>
        /\ trace = [i \in 1..NumModels |-> Event("backward", i)]
                   \o (IF use_amp THEN <<Event("unscale", 0)>> ELSE <<>>)
                   \o [i \in 1..NumModels |-> Event("synchronize", i)]
                   \o <<Event("average", 0), Event("norm", 0), Event("clip", 0)>>
                   \o (IF use_amp /\ found_inf THEN <<>>
                       ELSE <<Event("optimizer_step", 1)>>)
        /\ (use_amp /\ found_inf) => models[1].params = entry_params[1]
        /\ returned = GradientNorm(averaged)
        /\ \A i \in 2..NumModels : models[i].params = entry_params[i]

C10_Witness ==
    /\ train_pc = "returned"
    /\ use_amp
    /\ found_inf
    /\ NumModels = 4
    /\ trace[Len(trace)] = Event("clip", 0)
    /\ models[1].params = entry_params[1]
    /\ returned = NonFinite

====
